---- MODULE Spec2Model ----
(***************************************************************************)
(* cleanfollow-bsky: relationship reconciliation and batch cleanup.        *)
(*                                                                         *)
(* The repository holds two versions of the application:                   *)
(*   src/src/App.tsx       (build "App",   @atcute/client Client: rpc.get  *)
(*                          returns {ok, data}, only transport failures    *)
(*                          reject)                                        *)
(*   src/unnamed/part_000  (build "Part0", @atcute/client XRPC: rpc.get    *)
(*                          rejects on every failure)                      *)
(* The variable build says which of the two is running; it never changes.  *)
(***************************************************************************)
EXTENDS Integers, Sequences, FiniteSets, TLC

(***************************************************************************)
(* RepoStatus (App.tsx 25-34, part_000 41-50)                              *)
(***************************************************************************)
BLOCKEDBY == 1
BLOCKING == 2
DELETED == 4
DEACTIVATED == 8
SUSPENDED == 16
HIDDEN == 32
YOURSELF == 64
UNKNOWN == 128
\* "let status: RepoStatus | undefined = undefined": no flag has the value 0
NoStatus == 0

MUTUAL == BLOCKEDBY + BLOCKING

Flags == {BLOCKEDBY, BLOCKING, DELETED, DEACTIVATED, SUSPENDED, HIDDEN, YOURSELF, UNKNOWN}

Min(a, b) == IF a < b THEN a ELSE b

\* ceil(a / b) for b > 0
CeilDiv(a, b) == (a + b - 1) \div b

\* JavaScript's a & b on the 8 status bits
RECURSIVE BitAnd(_, _)
BitAnd(a, b) ==
  IF a = 0 \/ b = 0 THEN 0
  ELSE 2 * BitAnd(a \div 2, b \div 2) + (IF a % 2 = 1 /\ b % 2 = 1 THEN 1 ELSE 0)

HasFlag(status, flag) == BitAnd(status, flag) # 0

Builds == {"App", "Part0"}

(***************************************************************************)
(* What the network answers to getProfile(did), and what the identity      *)
(* directory answers to resolveDid(did).                                   *)
(*   kind      "ok" | "apierr" | "transport"                               *)
(*   ok:       hasData/hasDid/hasHandle/hasViewer  fields of the payload,  *)
(*             didRel  "self" (res.data.did = agentDID), "contains"        *)
(*                     (another did that has agentDID as a substring),     *)
(*                     "other",                                            *)
(*             hide, blockedBy, blocking, blockingByList                   *)
(*   apierr:   code (the error name), msgKw (the words of interest found   *)
(*             in the error's message), http (status),                     *)
(*             inData / inMsg: whether the thrown error of the XRPC client *)
(*             carries the error name in e.data.error / in e.message       *)
(*   resolve:  outcome of resolveDid: "handle", "noalias", "fetchfail",    *)
(*             "parsefail"                                                 *)
(***************************************************************************)
ErrorCodes == {"AccountDeactivated", "AccountSuspended", "AccountDeleted",
               "ActorNotFound", "InvalidRequest", "InternalServerError"}
Keywords == {"not found", "deactivated", "suspended"}
\* "errorStatus === 400" (part_000 484)
HttpBadRequest == 400
HttpStatuses == {HttpBadRequest, 500}

OkResp(missing, didRel, hide, blockedBy, blocking, byList) ==
  [kind |-> "ok",
   hasData |-> "data" \notin missing, hasDid |-> "did" \notin missing,
   hasHandle |-> "handle" \notin missing, hasViewer |-> "viewer" \notin missing,
   didRel |-> didRel, hide |-> hide, blockedBy |-> blockedBy,
   blocking |-> blocking, blockingByList |-> byList,
   code |-> "", msgKw |-> {}, http |-> 200, inData |-> FALSE, inMsg |-> FALSE,
   resolve |-> "handle"]

ErrResp(code, msgKw, http, inData, inMsg, resolve) ==
  [kind |-> "apierr",
   hasData |-> FALSE, hasDid |-> FALSE, hasHandle |-> FALSE, hasViewer |-> FALSE,
   didRel |-> "other", hide |-> FALSE, blockedBy |-> FALSE,
   blocking |-> FALSE, blockingByList |-> FALSE,
   code |-> code, msgKw |-> msgKw, http |-> http, inData |-> inData, inMsg |-> inMsg,
   resolve |-> resolve]

TransportResp(resolve) ==
  [kind |-> "transport",
   hasData |-> FALSE, hasDid |-> FALSE, hasHandle |-> FALSE, hasViewer |-> FALSE,
   didRel |-> "other", hide |-> FALSE, blockedBy |-> FALSE,
   blocking |-> FALSE, blockingByList |-> FALSE,
   code |-> "", msgKw |-> {}, http |-> 0, inData |-> FALSE, inMsg |-> FALSE,
   resolve |-> resolve]

(***************************************************************************)
(* resolveDid (App.tsx 84-107, part_000 140-169): never throws.            *)
(***************************************************************************)
resolveDid(b, outcome) ==
  IF outcome = "handle" THEN "user.handle"
  ELSE IF b = "App" THEN ""   \* "" or undefined: both falsy
  ELSE IF outcome = "fetchfail" THEN "[Failed to resolve]"
  ELSE IF outcome = "noalias" THEN "[No handle found]"
  ELSE "[Parse error]"

\* a result of checkProfileStatus; threw = the returned promise rejected
Result(handle, status, error) ==
  [threw |-> FALSE, handle |-> handle, status |-> status, error |-> error]
Thrown == [threw |-> TRUE, handle |-> "", status |-> NoStatus, error |-> "none"]

\* the if/else-if chain on a payload whose viewer is present; self says
\* whether the payload's did counts as the agent's own
ViewerStatus(r, self) ==
  IF r.hide THEN HIDDEN
  ELSE IF r.blockedBy THEN
    (IF r.blocking \/ r.blockingByList THEN BLOCKEDBY + BLOCKING ELSE BLOCKEDBY)
  ELSE IF self THEN YOURSELF
  ELSE IF r.blocking \/ r.blockingByList THEN BLOCKING
  ELSE NoStatus

(***************************************************************************)
(* checkProfileStatus, App.tsx 307-343                                     *)
(***************************************************************************)
checkProfileStatus_App(r) ==
  IF r.kind = "transport" THEN Thrown            \* rpc.get rejects, no try
  ELSE IF r.kind = "apierr" THEN
    Result(resolveDid("App", r.resolve),
           IF "not found" \in r.msgKw THEN DELETED
           ELSE IF "deactivated" \in r.msgKw THEN DEACTIVATED
           ELSE IF "suspended" \in r.msgKw THEN SUSPENDED
           ELSE UNKNOWN,
           "none")
  ELSE IF ~r.hasData THEN Thrown                 \* res.data.handle
  ELSE IF r.hide THEN Result(IF r.hasHandle THEN "user.handle" ELSE "", HIDDEN, "none")
  ELSE IF ~r.hasViewer THEN Thrown               \* viewer.blockedBy
  ELSE IF ~r.blockedBy /\ ~r.hasDid THEN Thrown  \* res.data.did.includes
  ELSE Result(IF r.hasHandle THEN "user.handle" ELSE "",
              ViewerStatus(r, r.didRel \in {"self", "contains"}),
              "none")

(***************************************************************************)
(* checkProfileStatus, part_000 407-504                                    *)
(***************************************************************************)
checkProfileStatus_Part0(r) ==
  IF r.kind = "ok" THEN
    IF ~r.hasData THEN Result("[Invalid Response]", UNKNOWN, "validation")
    ELSE IF ~r.hasDid \/ ~r.hasHandle THEN
      Result(IF r.hasHandle THEN "user.handle" ELSE "[Missing Handle]", UNKNOWN, "validation")
    ELSE IF ~r.hasViewer THEN Result("user.handle", NoStatus, "none")
    ELSE Result("user.handle", ViewerStatus(r, r.didRel = "self"), "none")
  ELSE
    LET isErr == r.kind = "apierr"
        dataError == IF isErr /\ r.inData THEN r.code ELSE ""
        msgHas(c) == isErr /\ r.inMsg /\ r.code = c
        errorStatus == IF isErr THEN r.http ELSE 0
    IN Result(resolveDid("Part0", r.resolve),
              IF dataError = "AccountDeactivated" \/ msgHas("AccountDeactivated")
                THEN DEACTIVATED
              ELSE IF dataError = "AccountSuspended" \/ msgHas("AccountSuspended")
                THEN SUSPENDED
              ELSE IF dataError = "AccountDeleted" \/ dataError = "ActorNotFound"
                      \/ errorStatus = HttpBadRequest
                THEN DELETED
              ELSE UNKNOWN,
              "api")

checkProfileStatus(b, r) ==
  IF b = "App" THEN checkProfileStatus_App(r) ELSE checkProfileStatus_Part0(r)

(***************************************************************************)
(* Bounds of the model                                                     *)
(***************************************************************************)
\* accounts of the network
MaxDids == 2
\* calls of fetchHiddenAccounts in a behaviour (they may overlap)
MaxRuns == 2
\* calls of removeItems in a behaviour (they may overlap)
MaxRemovals == 2
\* records of a listing in the runs of SpecPaging
MaxListed == 101
\* records marked toDelete in the runs of SpecBatch
MaxSelected == 450

Dids == 1..MaxDids
RunIds == 1..MaxRuns
RemIds == 1..MaxRemovals

(***************************************************************************)
(* Program constants                                                       *)
(***************************************************************************)
\* fetchBlocks: const PAGE_LIMIT = 50
BLOCKS_PAGE_LIMIT == 50
\* fetchFollows: const PAGE_LIMIT = 100
FOLLOWS_PAGE_LIMIT == 100
\* listRecords of app.bsky.graph.block: limit: 100
RECORDS_LIMIT == 100
\* removeItems: const BATCHSIZE = 200
BATCHSIZE == 200
\* follows.slice(i, i + 10)
PROBE_BATCH == 10
\* block mode: if (i > 0 && i % 10 === 0) await timer(100)
BLOCK_PAUSE_EVERY == 10
\* if (follows.length > 1500) await timer(1000)   (part_000: > 1000)
PACING_THRESHOLD_APP == 1500
PACING_THRESHOLD_PART0 == 1000

FOLLOWS == "follows"
BLOCKS == "blocks"
ViewModes == {FOLLOWS, BLOCKS}
FollowCollection == "app.bsky.graph.follow"
BlockCollection == "app.bsky.graph.block"

VARIABLES
  build,          \* which of the two versions runs
  \* ---- the network ----
  repoFollows,    \* the user's follow records, by ascending rkey
  repoBlocks,     \* the user's block records, by ascending rkey
  liveDids,       \* accounts app.bsky.graph.getBlocks still lists
  profile,        \* did -> the answer to getProfile / resolveDid
  server,         \* paging behaviour of the listing endpoints
  \* ---- module-level state of the application ----
  currentMode, followRecords, blockRecords, toggles, globalNotice,
  \* ---- signals of the Fetch component ----
  progress, itemCount,
  \* ---- asynchronous tasks ----
  runs,           \* fetchHiddenAccounts calls
  removals        \* removeItems calls

world == <<build, repoFollows, repoBlocks, liveDids, profile, server>>
app == <<currentMode, followRecords, blockRecords, toggles, globalNotice, progress, itemCount>>
vars == <<build, repoFollows, repoBlocks, liveDids, profile, server,
          currentMode, followRecords, blockRecords, toggles, globalNotice,
          progress, itemCount, runs, removals>>

Range(s) == {s[k] : k \in DOMAIN s}

Uri(collection, rkey) == [collection |-> collection, rkey |-> rkey]
RepoRecord(collection, rkey, subject) == [uri |-> Uri(collection, rkey), subject |-> subject]

(***************************************************************************)
(* The listing endpoints.  A cursor is the rkey of the last record of the  *)
(* page (0: no cursor).  The protocol only promises a cursor while records *)
(* remain: server.tailCursor says whether the server also returns one with *)
(* the last non-empty page (as the reference PDS does), server.cap is the  *)
(* largest page the server is willing to return.                           *)
(***************************************************************************)
After(list, c) == SelectSeq(list, LAMBDA x : x.uri.rkey > c)

ServerPage(list, c, limit) ==
  LET rest == After(list, c)
      n == Min(Min(limit, server.cap), Len(rest))
      page == SubSeq(rest, 1, n)
  IN [records |-> page,
      cursor |-> IF n > 0 /\ (n < Len(rest) \/ server.tailCursor)
                 THEN page[n].uri.rkey ELSE 0]

\* app.bsky.graph.getBlocks: one entry per blocked account that is still listed
LiveList ==
  LET listed == SelectSeq(repoBlocks, LAMBDA x : x.subject \in liveDids)
      subjects == {listed[k].subject : k \in DOMAIN listed}
  IN IF Cardinality(subjects) = Len(listed) THEN listed   \* no account blocked twice
     ELSE SelectSeq(listed, LAMBDA x :
            \A k \in DOMAIN listed :
              listed[k].subject = x.subject => listed[k].uri.rkey >= x.uri.rkey)

\* outcomes of one request
Outcomes == {"ok", "apierr", "transport"}

(***************************************************************************)
(* Records, labels, toggle stores                                          *)
(***************************************************************************)
AccountRecord(did, handle, uri, status, label, visible) ==
  [did |-> did, handle |-> IF handle = "" THEN "[Unknown Handle]" ELSE handle,
   uri |-> uri, status |-> status, status_label |-> label,
   toDelete |-> FALSE, visible |-> visible]

\* createStore<ToggleStates>: only some status keys have an entry
InitFollowToggles == [k \in {DELETED, DEACTIVATED, SUSPENDED, BLOCKEDBY, BLOCKING, HIDDEN} |-> TRUE]
InitBlockToggles == [k \in {DELETED, DEACTIVATED, SUSPENDED, UNKNOWN} |-> TRUE]

\* currentToggleStates[status] ?? true
ToggleLookup(store, status) == IF status \in DOMAIN store THEN store[status] ELSE TRUE

\* follow mode: the status_label chain
FollowLabel(status) ==
  IF status = DELETED THEN "Deleted"
  ELSE IF status = DEACTIVATED THEN "Deactivated"
  ELSE IF status = SUSPENDED THEN "Suspended"
  ELSE IF status = YOURSELF THEN "Literally Yourself"
  ELSE IF status = BLOCKING THEN "Blocking"
  ELSE IF status = BLOCKEDBY THEN "Blocked by"
  ELSE IF status = HIDDEN THEN "Hidden by moderation service"
  ELSE IF status = BLOCKEDBY + BLOCKING THEN "Mutual Block"
  ELSE IF status = UNKNOWN THEN "Unknown Status"
  ELSE ""

\* block mode: status_label
BlockLabel(status) ==
  IF status = DELETED THEN "Deleted"
  ELSE IF status = DEACTIVATED THEN "Deactivated"
  ELSE IF status = SUSPENDED THEN "Suspended"
  ELSE "Unknown"

\* block mode: actualStatus
\*   App.tsx:   status || RepoStatus.UNKNOWN
\*   part_000:  RepoStatus.UNKNOWN unless DELETED, DEACTIVATED or SUSPENDED
BlockActualStatus(b, status) ==
  IF b = "App" THEN (IF status = NoStatus THEN UNKNOWN ELSE status)
  ELSE IF status \in {DELETED, DEACTIVATED, SUSPENDED} THEN status
  ELSE UNKNOWN

PacingThreshold(b) == IF b = "App" THEN PACING_THRESHOLD_APP ELSE PACING_THRESHOLD_PART0

CurrentRecords == IF currentMode = BLOCKS THEN blockRecords ELSE followRecords

(***************************************************************************)
(* A call of fetchHiddenAccounts.                                          *)
(*   pc      idle | f_list | f_timer | f_probe | b_list | b_live | b_uris  *)
(*           | b_probe | b_timer | done | failed (the promise rejected)    *)
(*   mode    the mode read at the start (branch and toggle store)          *)
(*   cursor, requests   the listing loop under way and its page requests   *)
(*   items   follows / allBlockRecords                                     *)
(*   live    blocks (getBlocks);  blockedDids, blockUris: fetchBlocks      *)
(*   cands   the records to probe (follows / blocksToDelete)               *)
(*   probes  per candidate: st unissued | inflight | returned | threw,     *)
(*           and the status returned                                       *)
(*   i       loop index;  tmp: tmpFollows / tmpBlocks                      *)
(*   stores, stored     how often the run called setFollowRecords /        *)
(*           setBlockRecords, and with what                                *)
(*   prior   the calls that had ended with pc = "done" when this one began *)
(*   failure the listing in which a page request of the run failed:        *)
(*           none | follows | records | live | uris                        *)
(***************************************************************************)
IdleRun ==
  [pc |-> "idle", mode |-> FOLLOWS, cursor |-> 0, requests |-> 0, pages |-> <<>>,
   items |-> <<>>, live |-> <<>>, blockedDids |-> {}, blockUris |-> <<>>,
   cands |-> <<>>, probes |-> <<>>, i |-> 0, tmp |-> <<>>,
   stores |-> 0, stored |-> <<>>, prior |-> {}, failure |-> "none"]

\* the r-th call of fetchHiddenAccounts is the next one to start
FreeRun(r) ==
  /\ runs[r].pc = "idle"
  /\ \A q \in RunIds : q < r => runs[q].pc # "idle"

Probe(st, status) == [st |-> st, status |-> status]

SetProbe(probes, k, p) == [probes EXCEPT ![k] = p]

Unfinished(probes) == {k \in DOMAIN probes : probes[k].st \in {"unissued", "inflight"}}

(***************************************************************************)
(* Preview: fetchHiddenAccounts up to its first await                      *)
(***************************************************************************)
\* a Preview button that is also taken away while a call of
\* fetchHiddenAccounts is under way
PreviewShownWhenIdle ==
  /\ itemCount = 0 /\ Len(CurrentRecords) = 0
  /\ \A q \in RunIds : runs[q].pc \in {"idle", "done", "failed"}

\* <Show when={itemCount() === 0 && !currentRecords().length}> Preview
PreviewShown == itemCount = 0 /\ Len(CurrentRecords) = 0

StartRun(r) ==
  /\ PreviewShown
  /\ FreeRun(r)
  /\ progress' = 0
  /\ globalNotice' = IF currentMode = BLOCKS THEN "Fetching blocked accounts..."
                     ELSE "Fetching followed accounts..."
  /\ runs' = [runs EXCEPT ![r] =
       [IdleRun EXCEPT !.pc = IF currentMode = BLOCKS THEN "b_list" ELSE "f_list",
                       !.mode = currentMode, !.requests = 1,
                       !.prior = {q \in RunIds : runs[q].pc = "done"}]]
  /\ UNCHANGED <<world, currentMode, followRecords, blockRecords, toggles, itemCount, removals>>

(***************************************************************************)
(* Follow mode                                                             *)
(***************************************************************************)
\* the loop condition with > for >=: a full page no longer continues the loop
FollowsMoreStrict(page) == page.cursor # 0 /\ Len(page.records) > FOLLOWS_PAGE_LIMIT

\* fetchFollows: while (res.data.cursor && res.data.records.length >= PAGE_LIMIT)
FollowsMore(page) == page.cursor # 0 /\ Len(page.records) >= FOLLOWS_PAGE_LIMIT

\* fetchBlocks: while (res.data.cursor)
BlocksMore(page) == page.cursor # 0

\* fetchPage of fetchFollows and of fetchBlocks, with a failure thrown only
\* when the request itself was rejected
PageThrowsOnReject(outcome) == outcome = "transport"

\* fetchPage of fetchFollows and of fetchBlocks: the failed request throws
\*   App.tsx:   rpc.get rejects, or "if (!res.ok) throw new Error(res.data.error)"
\*   part_000:  rpc.get rejects on every failure
PageThrows(outcome) == outcome # "ok"

\* follow mode: if (status !== undefined) tmpFollows.push(...)
Retained(status) == status # NoStatus

\* fetchFollows: a page arrives
FollowPage(r, outcome) ==
  LET run == runs[r]
      page == ServerPage(repoFollows, run.cursor, FOLLOWS_PAGE_LIMIT)
      follows == run.items \o page.records
      n == Len(follows)
      more == FollowsMore(page)
      paced == n > PacingThreshold(build)
  IN
  /\ run.pc = "f_list"
  /\ IF PageThrows(outcome) THEN
       /\ runs' = [runs EXCEPT ![r].pc = "failed", ![r].failure = "follows"]
       /\ UNCHANGED <<itemCount, globalNotice>>
     ELSE IF more THEN
       /\ runs' = [runs EXCEPT ![r].items = follows, ![r].cursor = page.cursor,
                               ![r].requests = @ + 1,
                               ![r].pages = Append(@, Len(page.records)),
                               ![r].failure = IF outcome # "ok" THEN "follows" ELSE @]
       /\ UNCHANGED <<itemCount, globalNotice>>
     ELSE
       /\ itemCount' = n
       /\ globalNotice' = "Analyzing followed accounts..."
       /\ runs' = [runs EXCEPT ![r] =
            [run EXCEPT !.items = follows, !.cands = follows,
                        !.pages = Append(@, Len(page.records)),
                        !.failure = IF outcome # "ok" THEN "follows" ELSE @,
                        !.probes = [k \in 1..n |->
                                      Probe(IF paced THEN "unissued" ELSE "inflight", NoStatus)],
                        !.pc = IF n = 0 THEN "done"
                               ELSE IF paced THEN "f_timer" ELSE "f_probe"]]
  /\ UNCHANGED <<world, currentMode, followRecords, blockRecords, toggles, progress, removals>>

\* await timer(1000) returns: the next slice of PROBE_BATCH probes is launched
FollowTimer(r) ==
  LET run == runs[r]
      n == Len(run.cands)
      next == run.i + PROBE_BATCH
  IN
  /\ run.pc = "f_timer"
  /\ runs' = [runs EXCEPT ![r] =
       [run EXCEPT !.probes = [k \in 1..n |->
                                 IF k > run.i /\ k <= next THEN Probe("inflight", NoStatus)
                                 ELSE run.probes[k]],
                   !.i = next,
                   !.pc = IF next < n THEN "f_timer" ELSE "f_probe"]]
  /\ UNCHANGED <<world, app, removals>>

\* the counter going down at a probe's return
NextProgressDown(counted) == counted - 1

\* setProgress(progress() + 1)
NextProgress(counted) == counted + 1

\* the completion test passing as soon as one probe has been counted
RunCompleteEarly(counted, total) == counted >= 1

\* setProgress(progress() + 1); if (progress() === itemCount())
RunComplete(counted, total) == counted = total

\* the probe of candidate k returns: the rest of the forEach callback
FollowProbe(r, k) ==
  LET run == runs[r]
      record == run.cands[k]
      result == checkProfileStatus(build, profile[record.subject])
      status == result.status
      store == toggles[run.mode]
      tmpFollows ==
        IF Retained(status)
        THEN Append(run.tmp, AccountRecord(record.subject, result.handle, record.uri, status,
                                           FollowLabel(status), ToggleLookup(store, status)))
        ELSE run.tmp
      probes == SetProbe(run.probes, k,
                         Probe(IF result.threw THEN "threw" ELSE "returned", status))
      pc == IF Unfinished(probes) = {} THEN "done" ELSE run.pc
      complete == RunComplete(NextProgress(progress), itemCount)
  IN
  /\ run.pc \in {"f_timer", "f_probe"}
  /\ k \in DOMAIN run.probes /\ run.probes[k].st = "inflight"
  /\ IF result.threw THEN
       \* the callback's promise rejects; nothing awaits it
       /\ runs' = [runs EXCEPT ![r].probes = probes, ![r].pc = pc]
       /\ UNCHANGED <<followRecords, progress, itemCount, globalNotice>>
     ELSE IF complete THEN
       /\ globalNotice' = IF Len(tmpFollows) = 0 THEN "All accounts you follow are active" ELSE ""
       /\ followRecords' = tmpFollows
       /\ progress' = 0
       /\ itemCount' = 0
       /\ runs' = [runs EXCEPT ![r].probes = probes, ![r].pc = pc, ![r].tmp = tmpFollows,
                               ![r].stores = @ + 1, ![r].stored = tmpFollows]
     ELSE
       /\ progress' = NextProgress(progress)
       /\ runs' = [runs EXCEPT ![r].probes = probes, ![r].pc = pc, ![r].tmp = tmpFollows]
       /\ UNCHANGED <<followRecords, itemCount, globalNotice>>
  /\ UNCHANGED <<world, currentMode, blockRecords, toggles, removals>>

(***************************************************************************)
(* Block mode                                                              *)
(***************************************************************************)
BlockEntry(record) == [did |-> record.subject, uri |-> record.uri]

\* fetchHiddenAccounts: a page of the repository's block records arrives
BlockListPage(r, outcome) ==
  LET run == runs[r]
      page == ServerPage(repoBlocks, run.cursor, RECORDS_LIMIT)
      all == run.items \o [k \in DOMAIN page.records |-> BlockEntry(page.records[k])]
      \* "if (!res.ok) break" exists in App.tsx only; a rejected rpc.get is not caught
      breaks == outcome = "apierr" /\ build = "App"
  IN
  /\ run.pc = "b_list"
  /\ IF outcome # "ok" /\ ~breaks THEN
       runs' = [runs EXCEPT ![r].pc = "failed", ![r].failure = "records"]
     ELSE IF breaks THEN
       \* on to fetchBlocks with what was listed so far
       runs' = [runs EXCEPT ![r].pc = "b_live", ![r].cursor = 0, ![r].requests = 1,
                            ![r].pages = <<>>, ![r].failure = "records"]
     ELSE IF page.cursor # 0 THEN
       runs' = [runs EXCEPT ![r].items = all, ![r].cursor = page.cursor,
                            ![r].requests = @ + 1]
     ELSE
       runs' = [runs EXCEPT ![r].items = all, ![r].pc = "b_live", ![r].cursor = 0,
                            ![r].requests = 1, ![r].pages = <<>>]
  /\ UNCHANGED <<world, app, removals>>

\* fetchBlocks: a page of app.bsky.graph.getBlocks arrives
LivePage(r, outcome) ==
  LET run == runs[r]
      page == ServerPage(LiveList, run.cursor, BLOCKS_PAGE_LIMIT)
      blocks == run.live \o [k \in DOMAIN page.records |-> page.records[k].subject]
  IN
  /\ run.pc = "b_live"
  /\ IF PageThrows(outcome) THEN
       runs' = [runs EXCEPT ![r].pc = "failed", ![r].failure = "live"]
     ELSE IF BlocksMore(page) THEN
       runs' = [runs EXCEPT ![r].live = blocks, ![r].cursor = page.cursor,
                            ![r].requests = @ + 1,
                            ![r].pages = Append(@, Len(page.records)),
                            ![r].failure = IF outcome # "ok" THEN "live" ELSE @]
     ELSE
       runs' = [runs EXCEPT ![r].live = blocks, ![r].blockedDids = Range(blocks),
                            ![r].pages = Append(@, Len(page.records)),
                            ![r].pc = "b_uris", ![r].cursor = 0,
                            ![r].failure = IF outcome # "ok" THEN "live" ELSE @]
  /\ UNCHANGED <<world, app, removals>>

\* fetchBlocks: the for loop over one page of block records
RECURSIVE ScanUris(_, _, _)
ScanUris(records, blockUris, blockedDids) ==
  IF records = <<>> THEN [blockUris |-> blockUris, blockedDids |-> blockedDids]
  ELSE LET record == Head(records) IN
    IF record.subject \in blockedDids
    THEN ScanUris(Tail(records), Append(blockUris, BlockEntry(record)),
                  blockedDids \ {record.subject})
    ELSE ScanUris(Tail(records), blockUris, blockedDids)

\* the filter's result turned round
BlocksToDeleteReversed(allBlockRecords, activeBlocks) ==
  LET activeDids == {b.did : b \in Range(activeBlocks)}
      kept == SelectSeq(allBlockRecords, LAMBDA record : record.did \notin activeDids)
  IN [k \in DOMAIN kept |-> kept[Len(kept) + 1 - k]]

\* allBlockRecords.filter(record => !activeDids.has(record.did))
BlocksToDelete(allBlockRecords, activeBlocks) ==
  LET activeDids == {b.did : b \in Range(activeBlocks)}
  IN SelectSeq(allBlockRecords, LAMBDA record : record.did \notin activeDids)

\* fetchBlocks: a page of the repository's block records arrives; when it is
\* the last one, fetchHiddenAccounts goes on up to the first probe
UrisPage(r, outcome) ==
  LET run == runs[r]
      page == ServerPage(repoBlocks, run.cursor, RECORDS_LIMIT)
      scan == IF outcome = "ok" THEN ScanUris(page.records, run.blockUris, run.blockedDids)
              ELSE [blockUris |-> run.blockUris, blockedDids |-> run.blockedDids]
      more == outcome = "ok" /\ page.cursor # 0
      blocksToDelete == BlocksToDelete(run.items, scan.blockUris)
      n == Len(blocksToDelete)
  IN
  /\ run.pc = "b_uris"
  /\ IF more THEN
       /\ runs' = [runs EXCEPT ![r].blockUris = scan.blockUris,
                               ![r].blockedDids = scan.blockedDids,
                               ![r].cursor = page.cursor]
       /\ UNCHANGED <<blockRecords, progress, itemCount, globalNotice>>
     ELSE IF n = 0 THEN
       /\ globalNotice' = "All your blocked accounts are still active"
       /\ blockRecords' = <<>>
       /\ progress' = 0
       /\ itemCount' = 0
       /\ runs' = [runs EXCEPT ![r].blockUris = scan.blockUris,
                               ![r].blockedDids = scan.blockedDids,
                               ![r].failure = IF outcome # "ok" THEN "uris" ELSE @,
                               ![r].pc = "done", ![r].stores = @ + 1, ![r].stored = <<>>]
     ELSE
       /\ itemCount' = n
       /\ globalNotice' = "Analyzing blocked accounts..."
       /\ progress' = 1
       /\ runs' = [runs EXCEPT ![r] =
            [run EXCEPT !.blockUris = scan.blockUris, !.blockedDids = scan.blockedDids,
                        !.cands = blocksToDelete,
                        !.failure = IF outcome # "ok" THEN "uris" ELSE @,
                        !.probes = [k \in 1..n |->
                                      Probe(IF k = 1 THEN "inflight" ELSE "unissued", NoStatus)],
                        !.i = 0, !.pc = "b_probe"]]
       /\ UNCHANGED blockRecords
  /\ UNCHANGED <<world, currentMode, followRecords, toggles, removals>>

\* the probe of blocksToDelete[i] returns: the rest of the loop body, and the
\* loop up to its next await
BlockProbe(r) ==
  LET run == runs[r]
      k == run.i + 1
      block == run.cands[k]
      result == checkProfileStatus(build, profile[block.did])
      actualStatus == BlockActualStatus(build, result.status)
      store == toggles[run.mode]
      tmpBlocks == Append(run.tmp,
                          AccountRecord(block.did, result.handle, block.uri, actualStatus,
                                        BlockLabel(result.status),
                                        ToggleLookup(store, actualStatus)))
      probes == SetProbe(run.probes, k, Probe("returned", result.status))
      n == Len(run.cands)
  IN
  /\ run.pc = "b_probe"
  /\ IF result.threw THEN
       /\ runs' = [runs EXCEPT ![r].probes = SetProbe(run.probes, k, Probe("threw", NoStatus)),
                               ![r].pc = "failed"]
       /\ UNCHANGED <<blockRecords, progress, itemCount, globalNotice>>
     ELSE IF k < n /\ k % BLOCK_PAUSE_EVERY = 0 THEN
       \* await timer(100)
       /\ runs' = [runs EXCEPT ![r].probes = probes, ![r].tmp = tmpBlocks, ![r].i = k,
                               ![r].pc = "b_timer"]
       /\ UNCHANGED <<blockRecords, progress, itemCount, globalNotice>>
     ELSE IF k < n THEN
       /\ progress' = k + 1
       /\ runs' = [runs EXCEPT ![r].probes = SetProbe(probes, k + 1, Probe("inflight", NoStatus)),
                               ![r].tmp = tmpBlocks, ![r].i = k]
       /\ UNCHANGED <<blockRecords, itemCount, globalNotice>>
     ELSE
       /\ globalNotice' = ""
       /\ blockRecords' = tmpBlocks
       /\ progress' = 0
       /\ itemCount' = 0
       /\ runs' = [runs EXCEPT ![r].probes = probes, ![r].tmp = tmpBlocks, ![r].i = k,
                               ![r].pc = "done", ![r].stores = @ + 1,
                               ![r].stored = tmpBlocks]
  /\ UNCHANGED <<world, currentMode, followRecords, toggles, removals>>

\* await timer(100) returns
BlockTimer(r) ==
  LET run == runs[r] IN
  /\ run.pc = "b_timer"
  /\ progress' = run.i + 1
  /\ runs' = [runs EXCEPT ![r].probes = SetProbe(run.probes, run.i + 1, Probe("inflight", NoStatus)),
                          ![r].pc = "b_probe"]
  /\ UNCHANGED <<world, currentMode, followRecords, blockRecords, toggles, globalNotice,
                 itemCount, removals>>

(***************************************************************************)
(* removeItems.  A call:                                                   *)
(*   pc      idle | posting | done | failed (the promise rejected)         *)
(*   mode    the mode read at the start (items and collection)             *)
(*   selected  how many records were marked toDelete at the start          *)
(*   writes  the delete operations;  i: loop index                         *)
(*   calls   the applyWrites calls issued: first and last index in writes, *)
(*           and how each ended ("pending" while in flight)                *)
(*   cleared whether the call reached setBlockRecords([]) /                *)
(*           setFollowRecords([]), and for which mode                      *)
(***************************************************************************)
IdleRemoval ==
  [pc |-> "idle", mode |-> FOLLOWS, selected |-> 0, writes |-> <<>>, i |-> 0,
   calls |-> <<>>, cleared |-> "none"]

\* the m-th call of removeItems is the next one to start
FreeRemoval(m) ==
  /\ removals[m].pc = "idle"
  /\ \A q \in RemIds : q < m => removals[q].pc # "idle"

\* record.uri.split("/").pop()
Rkey(uri) == uri.rkey

DeleteOp(collection, record) == [collection |-> collection, rkey |-> Rkey(record.uri)]

\* items.filter((record) => record.toDelete).map(...)
Writes(items, collection) ==
  LET marked == SelectSeq(items, LAMBDA record : record.toDelete)
  IN [k \in DOMAIN marked |-> DeleteOp(collection, marked[k])]

Call(first, last, outcome) == [first |-> first, last |-> last, outcome |-> outcome]

\* a slice that is one operation too long
ChunkEndOver(i, n) == Min(i + BATCHSIZE + 1, n)

\* writes.slice(i, i + BATCHSIZE), as first and last index
ChunkEnd(i, n) == Min(i + BATCHSIZE, n)

SuccessNotice(mode, n) ==
  IF mode = BLOCKS
  THEN "Successfully cleaned up " \o ToString(n) \o " inactive block" \o (IF n > 1 THEN "s" ELSE "")
  ELSE "Successfully unfollowed " \o ToString(n) \o " account" \o (IF n > 1 THEN "s" ELSE "")

\* com.atproto.repo.applyWrites on the server: the records named are deleted
ApplyDeletes(repo, ops) ==
  SelectSeq(repo, LAMBDA x : [collection |-> x.uri.collection, rkey |-> x.uri.rkey] \notin ops)

\* the loop without its await: every chunk is posted before any has returned
AllChunks(n) ==
  [c \in 1..CeilDiv(n, BATCHSIZE) |->
     Call((c - 1) * BATCHSIZE + 1, ChunkEnd((c - 1) * BATCHSIZE, n), "pending")]

\* for (let i = 0; ...) { await rpc.post(...) }: the loop up to its first
\* await has posted the first chunk
FirstChunk(n) == <<Call(1, ChunkEnd(0, n), "pending")>>

\* Confirm: removeItems up to its first await
Confirm(m) ==
  LET items == CurrentRecords
      collection == IF currentMode = BLOCKS THEN BlockCollection ELSE FollowCollection
      writes == Writes(items, collection)
      n == Len(writes)
      selected == Cardinality({k \in DOMAIN items : items[k].toDelete})
  IN
  /\ Len(CurrentRecords) > 0                          \* <Show when=...> Confirm
  /\ FreeRemoval(m)
  /\ IF n = 0 THEN
       /\ blockRecords' = IF currentMode = BLOCKS THEN <<>> ELSE blockRecords
       /\ followRecords' = IF currentMode = BLOCKS THEN followRecords ELSE <<>>
       /\ globalNotice' = SuccessNotice(currentMode, n)
       /\ removals' = [removals EXCEPT ![m] =
            [IdleRemoval EXCEPT !.pc = "done", !.mode = currentMode, !.selected = selected,
                                !.cleared = currentMode]]
     ELSE
       /\ removals' = [removals EXCEPT ![m] =
            [IdleRemoval EXCEPT !.pc = "posting", !.mode = currentMode, !.selected = selected,
                                !.writes = writes,
                                !.calls = FirstChunk(n)]]
       /\ UNCHANGED <<followRecords, blockRecords, globalNotice>>
  /\ UNCHANGED <<world, currentMode, toggles, progress, itemCount, runs>>

\* the applyWrites call in flight returns
\*   App.tsx:  rpc.post resolves to {ok: false} on an API error, and removeItems
\*             does not look at it; only a transport failure rejects
\*   part_000: rpc.call rejects on every failure
ApplyWritesReturn(m, outcome) ==
  LET rem == removals[m]
      n == Len(rem.writes)
      last == ChunkEnd(rem.i, n)
      chunk == Range(SubSeq(rem.writes, rem.i + 1, last))
      calls == [rem.calls EXCEPT ![Len(rem.calls)].outcome = outcome]
      rejects == outcome = "transport" \/ (outcome = "apierr" /\ build = "Part0")
      i == rem.i + BATCHSIZE
  IN
  /\ rem.pc = "posting"
  /\ repoFollows' = IF outcome = "ok" THEN ApplyDeletes(repoFollows, chunk) ELSE repoFollows
  /\ repoBlocks' = IF outcome = "ok" THEN ApplyDeletes(repoBlocks, chunk) ELSE repoBlocks
  /\ IF rejects THEN
       /\ removals' = [removals EXCEPT ![m].calls = calls, ![m].pc = "failed"]
       /\ UNCHANGED <<followRecords, blockRecords, globalNotice>>
     ELSE IF i < n THEN
       /\ removals' = [removals EXCEPT ![m].i = i,
                         ![m].calls = Append(calls, Call(i + 1, ChunkEnd(i, n), "pending"))]
       /\ UNCHANGED <<followRecords, blockRecords, globalNotice>>
     ELSE
       /\ blockRecords' = IF currentMode = BLOCKS THEN <<>> ELSE blockRecords
       /\ followRecords' = IF currentMode = BLOCKS THEN followRecords ELSE <<>>
       /\ globalNotice' = SuccessNotice(currentMode, n)
       /\ removals' = [removals EXCEPT ![m].i = i, ![m].calls = calls, ![m].pc = "done",
                                       ![m].cleared = currentMode]
  /\ UNCHANGED <<build, liveDids, profile, server, currentMode, toggles, progress, itemCount, runs>>

(***************************************************************************)
(* ModeSelector and AccountList                                            *)
(***************************************************************************)
handleModeChange(mode) ==
  /\ currentMode' = mode
  /\ globalNotice' = ""
  /\ UNCHANGED <<world, followRecords, blockRecords, toggles, progress, itemCount, runs, removals>>

\* options(): the statuses that have a toggle and a Select All box
Options(mode) ==
  IF mode = BLOCKS THEN {DELETED, DEACTIVATED, SUSPENDED, UNKNOWN}
  ELSE {DELETED, DEACTIVATED, SUSPENDED, BLOCKEDBY, BLOCKING, HIDDEN}

\* editRecords comparing with === where the code tests (record.status & status)
editRecordsExact(records, status, field, value) ==
  [k \in DOMAIN records |->
     IF records[k].status = status
     THEN (IF field = "visible" THEN [records[k] EXCEPT !.visible = value]
           ELSE [records[k] EXCEPT !.toDelete = value])
     ELSE records[k]]

\* editRecords: the field is set on every record with (record.status & status)
editRecords(records, status, field, value) ==
  [k \in DOMAIN records |->
     IF BitAnd(records[k].status, status) # 0
     THEN (IF field = "visible" THEN [records[k] EXCEPT !.visible = value]
           ELSE [records[k] EXCEPT !.toDelete = value])
     ELSE records[k]]

\* the records of the current mode become recs
SetCurrentRecords(recs) ==
  /\ blockRecords' = IF currentMode = BLOCKS THEN recs ELSE blockRecords
  /\ followRecords' = IF currentMode = BLOCKS THEN followRecords ELSE recs

\* updateToggleState(status, value), value being the new state of the checkbox
updateToggleState(status, value) ==
  LET shown == editRecords(CurrentRecords, status, "visible", value)
  IN
  /\ Len(CurrentRecords) > 0                          \* <Show when=...> AccountList
  /\ status \in Options(currentMode)
  /\ value = ~ToggleLookup(toggles[currentMode], status)
  /\ toggles' = [toggles EXCEPT ![currentMode] =
                   [k \in DOMAIN @ \cup {status} |-> IF k = status THEN value ELSE @[k]]]
  /\ SetCurrentRecords(IF ~value THEN editRecords(shown, status, "toDelete", FALSE) ELSE shown)
  /\ UNCHANGED <<world, currentMode, globalNotice, progress, itemCount, runs, removals>>

\* the Select All box of a status: editRecords(status, "toDelete", checked)
SelectAll(status, value) ==
  /\ Len(CurrentRecords) > 0
  /\ status \in Options(currentMode)
  /\ SetCurrentRecords(editRecords(CurrentRecords, status, "toDelete", value))
  /\ UNCHANGED <<world, currentMode, toggles, globalNotice, progress, itemCount, runs, removals>>

\* the checkbox of one record, rendered while the record is visible
SelectRecord(index) ==
  /\ index \in DOMAIN CurrentRecords
  /\ CurrentRecords[index].visible
  /\ SetCurrentRecords([CurrentRecords EXCEPT ![index].toDelete = ~@])
  /\ UNCHANGED <<world, currentMode, toggles, globalNotice, progress, itemCount, runs, removals>>

(***************************************************************************)
(* Initial states                                                          *)
(***************************************************************************)
\* the records of a collection: one per did of the set, rkey = did
RepoOf(collection, dids) ==
  LET ordered == SelectSeq([k \in 1..MaxDids |-> k], LAMBDA d : d \in dids)
  IN [k \in DOMAIN ordered |-> RepoRecord(collection, ordered[k], ordered[k])]

\* answers to getProfile that the runs of Spec meet
Healthy == OkResp({}, "other", FALSE, FALSE, FALSE, FALSE)
MutualBlock == OkResp({}, "other", FALSE, TRUE, TRUE, FALSE)
Deactivated == ErrResp("AccountDeactivated", {"deactivated"}, HttpBadRequest, FALSE, TRUE, "handle")
BadRequest == ErrResp("InvalidRequest", {}, HttpBadRequest, FALSE, TRUE, "noalias")
Unreachable == TransportResp("fetchfail")

InitApp ==
  /\ currentMode = FOLLOWS
  /\ followRecords = <<>>
  /\ blockRecords = <<>>
  /\ toggles = [m \in ViewModes |-> IF m = BLOCKS THEN InitBlockToggles ELSE InitFollowToggles]
  /\ globalNotice = ""
  /\ progress = 0
  /\ itemCount = 0
  /\ runs = [r \in RunIds |-> IdleRun]
  /\ removals = [m \in RemIds |-> IdleRemoval]

\* an account of the network: how the user relates to it and what getProfile answers
Account(followed, blocked, live, resp) ==
  [followed |-> followed, blocked |-> blocked, live |-> live, resp |-> resp]

Blocking == OkResp({}, "other", FALSE, FALSE, TRUE, FALSE)

Accounts ==
  { Account(TRUE, FALSE, FALSE, Healthy),
    Account(TRUE, FALSE, FALSE, Deactivated),
    Account(TRUE, FALSE, FALSE, BadRequest),
    Account(TRUE, FALSE, FALSE, Unreachable),
    Account(TRUE, TRUE, TRUE, MutualBlock),
    Account(FALSE, TRUE, TRUE, Blocking),
    Account(FALSE, TRUE, FALSE, Deactivated),
    Account(FALSE, TRUE, FALSE, BadRequest),
    Account(FALSE, TRUE, FALSE, Unreachable),
    Account(FALSE, FALSE, FALSE, Healthy) }

\* the network made of the accounts acc[1..MaxDids]
InitWorld(acc) ==
  /\ repoFollows = RepoOf(FollowCollection, {d \in Dids : acc[d].followed})
  /\ repoBlocks = RepoOf(BlockCollection, {d \in Dids : acc[d].blocked})
  /\ liveDids = {d \in Dids : acc[d].live}
  /\ profile = [d \in Dids |-> acc[d].resp]

Init ==
  /\ build \in Builds
  /\ server = [tailCursor |-> FALSE, cap |-> RECORDS_LIMIT]
  /\ \E acc \in [Dids -> Accounts] : InitWorld(acc)
  /\ InitApp

\* the steps of a reconciliation run.  FollowTimer needs a follow list longer
\* than PacingThreshold(build) and BlockTimer more than BLOCK_PAUSE_EVERY stale
\* blocks; the networks below hold at most MaxDids accounts or are only listed,
\* so no run gets to a timer and the two steps are left out
RunStep ==
  \/ \E r \in RunIds : StartRun(r)
  \/ \E r \in RunIds, o \in Outcomes : FollowPage(r, o)
  \/ \E r \in RunIds, k \in Dids : FollowProbe(r, k)
  \/ \E r \in RunIds, o \in Outcomes : BlockListPage(r, o)
  \/ \E r \in RunIds, o \in Outcomes : LivePage(r, o)
  \/ \E r \in RunIds, o \in Outcomes : UrisPage(r, o)
  \/ \E r \in RunIds : BlockProbe(r)

ModeStep == \E mode \in ViewModes : handleModeChange(mode)

Next == RunStep \/ ModeStep

Spec == Init /\ [][Next]_vars

(***************************************************************************)
(* Runs and the account list together                                      *)
(***************************************************************************)
UiAccounts ==
  { Account(TRUE, TRUE, FALSE, Deactivated),
    Account(TRUE, TRUE, TRUE, MutualBlock),
    Account(TRUE, FALSE, FALSE, Healthy) }

\* the categories the user toggles and selects
UiStatuses == {BLOCKEDBY, BLOCKING, DEACTIVATED, UNKNOWN}

InitUi ==
  /\ build \in Builds
  /\ server = [tailCursor |-> FALSE, cap |-> RECORDS_LIMIT]
  /\ \E acc \in [Dids -> UiAccounts] : InitWorld(acc)
  /\ InitApp

UiStep ==
  \/ \E status \in UiStatuses, value \in BOOLEAN : updateToggleState(status, value)
  \/ \E status \in UiStatuses, value \in BOOLEAN : SelectAll(status, value)
  \/ \E index \in 1..MaxDids : SelectRecord(index)

RemoveStep ==
  \/ \E m \in RemIds : Confirm(m)
  \/ \E m \in RemIds, o \in Outcomes : ApplyWritesReturn(m, o)

NextUi == RunStep \/ ModeStep \/ UiStep

SpecUi == InitUi /\ [][NextUi]_vars

(***************************************************************************)
(* One account, every answer of getProfile: the classifier inside the runs *)
(***************************************************************************)
\* payloads of a successful getProfile
OkResps ==
  { OkResp(missing, didRel, hide, blockedBy, blocking, byList) :
      missing \in {{"data"}} \cup SUBSET {"did", "handle", "viewer"},
      didRel \in {"self", "contains", "other"},
      hide \in BOOLEAN, blockedBy \in BOOLEAN, blocking \in BOOLEAN, byList \in BOOLEAN }

\* error responses; the XRPC client's error message starts with the error name
ErrResps ==
  { ErrResp(code, msgKw, http, inData, TRUE, resolve) :
      code \in ErrorCodes, msgKw \in SUBSET Keywords, http \in HttpStatuses,
      inData \in BOOLEAN, resolve \in {"handle", "fetchfail"} }

AllResps == OkResps \cup ErrResps \cup {TransportResp("handle"), TransportResp("noalias")}

\* account 1 is followed and has a stale block record; the others are strangers
InitProbe ==
  /\ build \in Builds
  /\ server = [tailCursor |-> FALSE, cap |-> RECORDS_LIMIT]
  /\ \E resp \in AllResps :
       InitWorld([d \in Dids |-> IF d = 1 THEN Account(TRUE, TRUE, FALSE, resp)
                                 ELSE Account(FALSE, FALSE, FALSE, Healthy)])
  /\ InitApp

SpecProbe == InitProbe /\ [][Next]_vars

(***************************************************************************)
(* The listing loops on long lists                                         *)
(***************************************************************************)
\* list lengths around the multiples of the smaller page limit
ListSizes == {0, 1} \cup {n \in 2..MaxListed : n % BLOCKS_PAGE_LIMIT \in {0, 1, BLOCKS_PAGE_LIMIT - 1}}

\* n records of a collection, the k-th about account k
LongRepo(collection, n) == [k \in 1..n |-> RepoRecord(collection, k, k)]

\* n follows and n blocks, all of the blocks still listed
InitPaging ==
  /\ build \in Builds
  /\ server \in [tailCursor : BOOLEAN, cap : {RECORDS_LIMIT}]
  /\ \E n \in ListSizes :
       /\ repoFollows = LongRepo(FollowCollection, n)
       /\ repoBlocks = LongRepo(BlockCollection, n)
       /\ liveDids = 1..n
  /\ profile = [d \in Dids |-> Healthy]
  /\ InitApp

NextPaging ==
  \/ \E r \in RunIds : StartRun(r)
  \/ \E r \in RunIds, o \in Outcomes : FollowPage(r, o)
  \/ \E r \in RunIds, o \in Outcomes : BlockListPage(r, o)
  \/ \E r \in RunIds, o \in Outcomes : LivePage(r, o)
  \/ \E r \in RunIds, o \in Outcomes : UrisPage(r, o)
  \/ ModeStep

SpecPaging == InitPaging /\ [][NextPaging]_vars

(***************************************************************************)
(* The listing loops against a server with short pages                     *)
(***************************************************************************)
\* a server that returns at most half of the records asked for in a page
ShortCap == RECORDS_LIMIT \div 2

\* n follows and no block
InitShort ==
  /\ build \in Builds
  /\ server \in [tailCursor : BOOLEAN, cap : {ShortCap}]
  /\ \E n \in ListSizes : repoFollows = LongRepo(FollowCollection, n)
  /\ repoBlocks = <<>>
  /\ liveDids = {}
  /\ profile = [d \in Dids |-> Healthy]
  /\ InitApp

SpecShort == InitShort /\ [][NextPaging]_vars

(***************************************************************************)
(* removeItems on long selections                                          *)
(***************************************************************************)
\* n records of a mode, the first k of them marked toDelete
LongRecords(collection, n, k) ==
  [j \in 1..n |->
     [AccountRecord(j, "user.handle", Uri(collection, j), DELETED, "Deleted", TRUE)
        EXCEPT !.toDelete = j <= k]]

\* finished runs have left k selected records and an unselected one in the
\* store of the current mode, and one unselected record in the other store
InitBatch ==
  /\ build \in Builds
  /\ server = [tailCursor |-> FALSE, cap |-> RECORDS_LIMIT]
  /\ liveDids = {}
  /\ profile = [d \in Dids |-> Healthy]
  /\ currentMode \in ViewModes
  /\ \E k \in 0..MaxSelected :
       /\ repoFollows = LongRepo(FollowCollection, IF currentMode = FOLLOWS THEN k + 1 ELSE 1)
       /\ repoBlocks = LongRepo(BlockCollection, IF currentMode = BLOCKS THEN k + 1 ELSE 1)
       /\ followRecords = IF currentMode = FOLLOWS
                          THEN LongRecords(FollowCollection, k + 1, k)
                          ELSE LongRecords(FollowCollection, 1, 0)
       /\ blockRecords = IF currentMode = BLOCKS
                         THEN LongRecords(BlockCollection, k + 1, k)
                         ELSE LongRecords(BlockCollection, 1, 0)
  /\ toggles = [m \in ViewModes |-> IF m = BLOCKS THEN InitBlockToggles ELSE InitFollowToggles]
  /\ globalNotice = ""
  /\ progress = 0
  /\ itemCount = 0
  /\ runs = [r \in RunIds |-> IdleRun]
  /\ removals = [m \in RemIds |-> IdleRemoval]

\* one call of removeItems, followed through its chunks
BatchStep ==
  \/ Confirm(1)
  \/ \E o \in Outcomes : ApplyWritesReturn(1, o)

NextBatch == BatchStep \/ ModeStep

SpecBatch == InitBatch /\ [][NextBatch]_vars

(***************************************************************************)
(* Selecting and removing: calls of removeItems that may overlap           *)
(***************************************************************************)
\* finished runs have left up to MaxDids records in each store, none selected
InitRemove ==
  /\ build \in Builds
  /\ server = [tailCursor |-> FALSE, cap |-> RECORDS_LIMIT]
  /\ liveDids = {}
  /\ profile = [d \in Dids |-> Healthy]
  /\ currentMode \in ViewModes
  /\ \E nf \in 0..MaxDids, nb \in 0..MaxDids :
       /\ repoFollows = LongRepo(FollowCollection, nf)
       /\ repoBlocks = LongRepo(BlockCollection, nb)
       /\ followRecords = LongRecords(FollowCollection, nf, 0)
       /\ blockRecords = LongRecords(BlockCollection, nb, 0)
  /\ toggles = [m \in ViewModes |-> IF m = BLOCKS THEN InitBlockToggles ELSE InitFollowToggles]
  /\ globalNotice = ""
  /\ progress = 0
  /\ itemCount = 0
  /\ runs = [r \in RunIds |-> IdleRun]
  /\ removals = [m \in RemIds |-> IdleRemoval]

SelectStep ==
  \/ \E status \in {DELETED}, value \in BOOLEAN : SelectAll(status, value)
  \/ \E index \in 1..MaxDids : SelectRecord(index)

NextRemove == SelectStep \/ RemoveStep \/ ModeStep

SpecRemove == InitRemove /\ [][NextRemove]_vars

(***************************************************************************)
(* Properties                                                              *)
(***************************************************************************)
\* the account the k-th probe of a run asks about
CandDid(run, k) == IF run.mode = BLOCKS THEN run.cands[k].did ELSE run.cands[k].subject

\* the probes that have ended, as <<run, index>>
EndedProbes ==
  {p \in RunIds \X (1..MaxDids) :
     /\ p[2] \in DOMAIN runs[p[1]].probes
     /\ runs[p[1]].probes[p[2]].st \in {"returned", "threw"}}

\* C1: a completed block-mode run has stored exactly the block records of
\* its repository listing whose subject is absent from the active-block list
\* getBlocks gave it: the accounts of the stored records are the accounts of
\* those stale records
BlockRunStoresStale ==
  \A r \in RunIds :
    runs[r].mode = BLOCKS /\ runs[r].pc = "done" =>
      {rec.did : rec \in Range(runs[r].stored)}
        = {x.did : x \in {y \in Range(runs[r].items) : y.did \notin Range(runs[r].live)}}

\* C2: once a follow-mode run is complete (every probe has returned), an
\* account of its follow list has a record in followRecords exactly when
\* checkProfileStatus returned a defined status for it
FollowRunStoresFlagged ==
  \A r \in RunIds :
    LET run == runs[r] IN
    /\ run.mode = FOLLOWS /\ run.pc = "done"
    /\ \A k \in DOMAIN run.probes : run.probes[k].st = "returned"
    => \A k \in DOMAIN run.cands :
         (\E j \in DOMAIN followRecords : followRecords[j].did = run.cands[k].subject)
           <=> run.probes[k].status # NoStatus

CallSize(c) == c.last - c.first + 1

RECURSIVE SumSizes(_)
SumSizes(calls) == IF calls = <<>> THEN 0 ELSE CallSize(Head(calls)) + SumSizes(Tail(calls))

\* C3: a removeItems call that ran to its end with K records marked toDelete
\* has issued exactly ceil(K / 200) applyWrites calls, each with 1..200
\* operations, the chunks following one another, K operations in all
BatchCallsExact ==
  \A m \in RemIds :
    LET rem == removals[m]
        calls == rem.calls
    IN rem.pc = "done" =>
         /\ Len(calls) = CeilDiv(rem.selected, BATCHSIZE)
         /\ \A j \in DOMAIN calls :
              /\ CallSize(calls[j]) >= 1 /\ CallSize(calls[j]) <= BATCHSIZE
              /\ calls[j].first = IF j = 1 THEN 1 ELSE calls[j - 1].last + 1
         /\ SumSizes(calls) = rem.selected

\* 450 selected records went out as calls of 200, 200 and 50 operations
BatchOf450 ==
  \E m \in RemIds :
    /\ removals[m].pc = "done" /\ removals[m].selected = 450
    /\ [j \in DOMAIN removals[m].calls |-> CallSize(removals[m].calls[j])] = <<200, 200, 50>>

\* C4: a failed applyWrites call is the last one its removeItems call issues,
\* the call of removeItems ends rejected, and it clears no record collection
FailedChunkStops ==
  \A m \in RemIds :
    \A j \in DOMAIN removals[m].calls :
      removals[m].calls[j].outcome \in {"apierr", "transport"} =>
        /\ j = Len(removals[m].calls)
        /\ removals[m].pc = "failed"
        /\ removals[m].cleared = "none"

\* the follow records fetchFollows has returned, and the accounts fetchBlocks
\* has got from getBlocks, are all those of the server, in its order
ListedAll(run) ==
  /\ run.mode = FOLLOWS /\ run.pc \in {"f_timer", "f_probe", "done"} => run.items = repoFollows
  /\ run.mode = BLOCKS /\ run.pc \in {"b_uris", "b_probe", "b_timer", "done"} =>
       run.live = [k \in DOMAIN LiveList |-> LiveList[k].subject]

\* C5 as stated: both listing loops end after exactly ceil(N / P) requests,
\* one request for N = 0, with all N items in server order
PagingExact ==
  \A r \in RunIds :
    LET run == runs[r]
        pagesOf(n, limit) == IF n = 0 THEN 1 ELSE CeilDiv(n, limit)
    IN
    /\ ListedAll(run)
    /\ run.mode = FOLLOWS /\ run.pc \in {"f_timer", "f_probe", "done"} =>
         run.requests = pagesOf(Len(repoFollows), FOLLOWS_PAGE_LIMIT)
    /\ run.mode = BLOCKS /\ run.pc \in {"b_uris", "b_probe", "b_timer", "done"} =>
         run.requests = pagesOf(Len(LiveList), BLOCKS_PAGE_LIMIT)

\* C5: against a server that fills every page up to the limit, both listing
\* loops return all N items in server order; the requests are ceil(N / P)
\* (one for N = 0), and one more when the server sends a cursor with the last
\* non-empty page: for fetchBlocks whenever N > 0, for fetchFollows when N is
\* a positive multiple of P
PagingWithTailCursor ==
  \A r \in RunIds :
    LET run == runs[r]
        pagesOf(n, limit) == IF n = 0 THEN 1 ELSE CeilDiv(n, limit)
        extra(b) == IF b /\ server.tailCursor THEN 1 ELSE 0
        nf == Len(repoFollows)
        nb == Len(LiveList)
    IN server.cap >= FOLLOWS_PAGE_LIMIT /\ server.cap >= BLOCKS_PAGE_LIMIT =>
    /\ ListedAll(run)
    /\ run.mode = FOLLOWS /\ run.pc \in {"f_timer", "f_probe", "done"} =>
         run.requests = pagesOf(nf, FOLLOWS_PAGE_LIMIT)
                          + extra(nf > 0 /\ nf % FOLLOWS_PAGE_LIMIT = 0)
    /\ run.mode = BLOCKS /\ run.pc \in {"b_uris", "b_probe", "b_timer", "done"} =>
         run.requests = pagesOf(nb, BLOCKS_PAGE_LIMIT) + extra(nb > 0)

\* a full last page with a cursor cost fetchFollows a request for an empty
\* page, and fetchBlocks went through two pages and an empty one
PagingTailReached ==
  /\ server.tailCursor
  /\ \E r \in RunIds :
       /\ runs[r].mode = FOLLOWS /\ runs[r].pc = "f_probe"
       /\ Len(runs[r].items) = FOLLOWS_PAGE_LIMIT /\ runs[r].requests = 2
       /\ runs[r].pages = <<FOLLOWS_PAGE_LIMIT, 0>>
  /\ \E r \in RunIds :
       /\ runs[r].mode = BLOCKS /\ runs[r].pc = "done"
       /\ Len(runs[r].live) = 2 * BLOCKS_PAGE_LIMIT /\ runs[r].requests = 3
       /\ runs[r].pages = <<BLOCKS_PAGE_LIMIT, BLOCKS_PAGE_LIMIT, 0>>

\* C6: no call of checkProfileStatus ends by throwing, and so no run is
\* aborted by a probe
NoProbeThrows ==
  /\ \A p \in EndedProbes : runs[p[1]].probes[p[2]].st # "threw"
  /\ \A r \in RunIds : runs[r].pc = "failed" => \A k \in DOMAIN runs[r].probes :
                                                  runs[r].probes[k].st = "unissued"

\* what the error name of a failed profile fetch says about the account, and
\* what the words of its message say
NameSignals(resp) ==
  {s \in {"deactivated", "suspended", "deleted"} :
     \/ s = "deactivated" /\ resp.code = "AccountDeactivated"
     \/ s = "suspended" /\ resp.code = "AccountSuspended"
     \/ s = "deleted" /\ resp.code \in {"AccountDeleted", "ActorNotFound"}}

MessageSignals(resp) ==
  {s \in {"deactivated", "suspended", "deleted"} :
     \/ s = "deactivated" /\ "deactivated" \in resp.msgKw
     \/ s = "suspended" /\ "suspended" \in resp.msgKw
     \/ s = "deleted" /\ "not found" \in resp.msgKw}

FailureSignals(resp) == NameSignals(resp) \cup MessageSignals(resp)

SignalStatus(resp) ==
  IF FailureSignals(resp) = {"deactivated"} THEN DEACTIVATED
  ELSE IF FailureSignals(resp) = {"suspended"} THEN SUSPENDED
  ELSE IF FailureSignals(resp) = {"deleted"} THEN DELETED
  ELSE IF resp.http = HttpBadRequest THEN DELETED
  ELSE UNKNOWN

\* C7: when the profile fetch fails and the error name and the message agree
\* on what they signal, the probe returns DEACTIVATED for a deactivated
\* signal, SUSPENDED for a suspended one, DELETED for a deleted / not-found
\* one or a 400 response without signal, and UNKNOWN for every other failure
FailureStatusBySignal ==
  \A p \in EndedProbes :
    LET run == runs[p[1]]
        resp == profile[CandDid(run, p[2])]
    IN resp.kind # "ok" /\ NameSignals(resp) = MessageSignals(resp) =>
         /\ run.probes[p[2]].st = "returned"
         /\ run.probes[p[2]].status = SignalStatus(resp)

\* the status a profile payload gets by the stated order of checks; the
\* viewer's own identifier is a payload with didRel = "self"
PriorityStatus(resp) ==
  IF resp.hide THEN HIDDEN
  ELSE IF resp.blockedBy /\ (resp.blocking \/ resp.blockingByList) THEN MUTUAL
  ELSE IF resp.blockedBy THEN BLOCKEDBY
  ELSE IF resp.didRel = "self" THEN YOURSELF
  ELSE IF resp.blocking \/ resp.blockingByList THEN BLOCKING
  ELSE NoStatus

\* C8: for a profile payload with identifier, handle and viewer, the probe
\* returns HIDDEN for a hide label, else BLOCKEDBY (with BLOCKING when the
\* viewer blocks too) when blocked, else YOURSELF for the viewer's own
\* identifier, else BLOCKING when the viewer blocks, else no status
PayloadStatusByPriority ==
  \A p \in EndedProbes :
    LET run == runs[p[1]]
        resp == profile[CandDid(run, p[2])]
    IN resp.kind = "ok" /\ resp.hasData /\ resp.hasDid /\ resp.hasHandle /\ resp.hasViewer =>
         /\ run.probes[p[2]].st = "returned"
         /\ run.probes[p[2]].status = PriorityStatus(resp)

\* C9: a stored record, of either mode, whose status has both BLOCKEDBY and
\* BLOCKING is labelled "Mutual Block"
MutualBlockLabelled ==
  \A rec \in Range(followRecords) \cup Range(blockRecords) :
    HasFlag(rec.status, BLOCKEDBY) /\ HasFlag(rec.status, BLOCKING) =>
      rec.status_label = "Mutual Block"

\* C10: a step that is updateToggleState(status, false) leaves every record of
\* the current mode whose status has the flag with visible = false and
\* toDelete = false
ToggleOffHidesAndUnselects ==
  [][\A status \in UiStatuses :
       updateToggleState(status, FALSE) =>
         \A k \in DOMAIN CurrentRecords' :
           HasFlag(CurrentRecords'[k].status, status) =>
             ~CurrentRecords'[k].visible /\ ~CurrentRecords'[k].toDelete]_vars

\* the blocked-by toggle of follow mode is off, and the mutual-block record of
\* the follow list is hidden and unselected
MutualHiddenByToggle ==
  /\ currentMode = FOLLOWS
  /\ ~ToggleLookup(toggles[FOLLOWS], BLOCKEDBY)
  /\ \E k \in DOMAIN followRecords :
       /\ followRecords[k].status = MUTUAL
       /\ ~followRecords[k].visible /\ ~followRecords[k].toDelete

\* C11: every record a block-mode run has stored has one of the statuses
\* DELETED, DEACTIVATED, SUSPENDED, UNKNOWN
BlockStatusesRestricted ==
  /\ \A rec \in Range(blockRecords) : rec.status \in {DELETED, DEACTIVATED, SUSPENDED, UNKNOWN}
  /\ \A r \in RunIds : runs[r].mode = BLOCKS =>
       \A rec \in Range(runs[r].stored) :
         rec.status \in {DELETED, DEACTIVATED, SUSPENDED, UNKNOWN}

\* the accounts and statuses a run has stored
StoredSet(run) == {<<rec.did, rec.status>> : rec \in Range(run.stored)}

\* C12: a run that began after a run of the same mode had completed, the
\* network being the same, completes with the same accounts and statuses
\* stored
RerunStoresSame ==
  \A r1 \in RunIds, r2 \in RunIds :
    /\ r1 \in runs[r2].prior
    /\ runs[r2].pc = "done"
    /\ runs[r1].mode = runs[r2].mode
    => StoredSet(runs[r1]) = StoredSet(runs[r2])

\* the notice of a run that found nothing to clean
NothingToClean(mode) ==
  IF mode = BLOCKS THEN "All your blocked accounts are still active"
  ELSE "All accounts you follow are active"

\* C13: the step that completes a run (its listings and probes have all
\* returned) stores the run's results, leaves progress and itemCount at 0 and,
\* when the run flagged nothing, shows the nothing-to-clean notice
CompletionStoresAndNotifies ==
  [][\A r \in RunIds :
       runs[r].pc # "done" /\ runs'[r].pc = "done" =>
         /\ runs'[r].stores = 1
         /\ progress' = 0 /\ itemCount' = 0
         /\ runs'[r].tmp = <<>> => globalNotice' = NothingToClean(runs'[r].mode)]_vars

\* the record collection of a mode
RecordsOf(mode) == IF mode = BLOCKS THEN blockRecords ELSE followRecords

\* C14: the step that completes a removeItems call started in mode M leaves
\* the record collection of M empty and the collection of the other mode as
\* it was
RemovalClearsItsMode ==
  [][\A m \in RemIds :
       removals[m].pc # "done" /\ removals'[m].pc = "done" =>
         \A mode \in ViewModes :
           IF mode = removals'[m].mode THEN RecordsOf(mode)' = <<>>
           ELSE RecordsOf(mode)' = RecordsOf(mode)]_vars

\* C15: a failed page request while the follow records or the live blocks
\* are being listed ends the run there: the call is rejected, it has issued
\* no probe and issues none, and it has stored nothing in followRecords or
\* blockRecords
ListingFailureAborts ==
  \A r \in RunIds :
    runs[r].failure \in {"follows", "live"} =>
      /\ runs[r].pc = "failed"
      /\ runs[r].probes = <<>>
      /\ runs[r].stores = 0

\* a block run listed its block records and then failed at getBlocks, while
\* an earlier run's follow results are in the store
LiveListingFailed ==
  \E r \in RunIds :
    /\ runs[r].failure = "live" /\ runs[r].pc = "failed"
    /\ Len(runs[r].items) > 0
    /\ Len(followRecords) > 0

\* C16: removeItems posts chunk N+1 only after chunk N has returned: of the
\* applyWrites calls of one invocation at most one is in flight, and it is the
\* last one issued; the chunks follow one another through the delete
\* operations, which are in the order of the records
ChunksSequential ==
  \A m \in RemIds :
    LET rem == removals[m]
        calls == rem.calls
    IN /\ \A c \in DOMAIN calls : calls[c].outcome = "pending" => c = Len(calls)
       /\ \A c \in DOMAIN calls :
            /\ calls[c].first = (IF c = 1 THEN 1 ELSE calls[c - 1].last + 1)
            /\ calls[c].first <= calls[c].last
       \* the j-th record of a store has record key j
       /\ \A j \in 1..(Len(rem.writes) - 1) : rem.writes[j].rkey < rem.writes[j + 1].rkey

\* the third chunk is in flight after the first two have returned
ThirdChunkInFlight ==
  \E m \in RemIds :
    /\ Len(removals[m].calls) = 3
    /\ removals[m].calls[1].outcome = "ok" /\ removals[m].calls[2].outcome \in {"ok", "apierr"}
    /\ removals[m].calls[3].outcome = "pending"

\* no other call of fetchHiddenAccounts has begun
SingleRun(r) == \A q \in RunIds \ {r} : runs[q].pc = "idle"

\* C17: in a follow-mode run over N >= 1 follows that is the only run and in
\* which no probe has thrown, setFollowRecords has been invoked once when all
\* N probes have returned and not at all before, whatever the order the
\* probes returned in, and it was given every account whose probe flagged it
SingleFollowRunStoresOnce ==
  \A r \in RunIds :
    LET run == runs[r]
        flagged == {k \in DOMAIN run.probes : Retained(run.probes[k].status)}
    IN /\ SingleRun(r) /\ run.mode = FOLLOWS /\ run.pc \in {"f_timer", "f_probe", "done"}
       /\ Len(run.cands) >= 1
       /\ \A k \in DOMAIN run.probes : run.probes[k].st # "threw"
       => /\ run.stores = (IF Unfinished(run.probes) = {} THEN 1 ELSE 0)
          /\ run.stores = 1 =>
               /\ {rec.did : rec \in Range(run.stored)} = {CandDid(run, k) : k \in flagged}
               /\ Len(run.stored) = Cardinality(flagged)
               /\ followRecords = run.stored

\* the only run has stored two flagged accounts, the second follow's probe
\* having returned first
SecondProbeFirst ==
  \E r \in RunIds :
    /\ SingleRun(r) /\ runs[r].mode = FOLLOWS /\ runs[r].pc = "done"
    /\ runs[r].stores = 1 /\ Len(runs[r].stored) = 2
    /\ runs[r].stored[1].did = CandDid(runs[r], 2)

\* the probes of a run that were launched and have not ended
InFlight(run) == {k \in DOMAIN run.probes : run.probes[k].st = "inflight"}

\* C18: a follow-mode run never has more than 10 profile probes launched and
\* not yet completed, whatever the length of the follow list
FollowProbesBounded ==
  \A r \in RunIds :
    runs[r].mode = FOLLOWS => Cardinality(InFlight(runs[r])) <= PROBE_BATCH

\* no other call of fetchHiddenAccounts has been under way together with
\* this one: each has not begun, or had ended when this one began
NotOverlapped(r) == \A q \in RunIds \ {r} : runs[q].pc = "idle" \/ q \in runs[r].prior

\* itemCount has been set and the run has not ended
Probing(run) == run.pc \in {"f_timer", "f_probe", "b_probe", "b_timer"}

\* C19: while a run, follow or block mode, that no other run overlaps is
\* between setting itemCount and its end, progress is at most itemCount and
\* no step short of the run's completion makes it smaller
ProgressMonotone ==
  [][\A r \in RunIds :
       NotOverlapped(r) /\ Probing(runs[r]) =>
         /\ progress <= itemCount
         /\ runs'[r].pc # "done" =>
              /\ progress' >= progress
              /\ progress' <= itemCount']_vars

\* the counter has moved during a run begun after an earlier one had ended:
\* a block run at its second probe, or a follow run with one of two probes back
ProgressAdvanced ==
  \E r \in RunIds :
    /\ NotOverlapped(r) /\ Probing(runs[r]) /\ runs[r].prior # {}
    /\ itemCount = 2
    /\ progress = (IF runs[r].mode = BLOCKS THEN 2 ELSE 1)
    /\ \E k \in DOMAIN runs[r].probes : runs[r].probes[k].st = "returned"

\* C20: a block-mode run has at most one profile probe in flight at any
\* time, adds its records in the order of the probes, and what it stores in
\* blockRecords is in the order in which the stale records stand in the
\* run's listing of the repository
BlockProbesSequential ==
  \A r \in RunIds :
    LET run == runs[r] IN
    run.mode = BLOCKS =>
      /\ Cardinality(InFlight(run)) <= 1
      /\ \A k \in DOMAIN run.tmp : run.tmp[k].uri = run.cands[k].uri
      /\ SelectSeq(run.items, LAMBDA x : x \in Range(run.cands)) = run.cands
      /\ run.stores = 1 => /\ Len(run.stored) = Len(run.cands)
                           /\ \A k \in DOMAIN run.stored : run.stored[k].uri = run.cands[k].uri

\* a block run has stored two stale blocks
TwoStaleStored ==
  \E r \in RunIds :
    /\ runs[r].mode = BLOCKS /\ runs[r].pc = "done"
    /\ Len(runs[r].stored) = 2
    /\ blockRecords = runs[r].stored

\* no flag contained in the status is toggled off in the store (a flag with
\* no entry counts as shown)
ShownByToggles(store, status) ==
  \A flag \in Flags : HasFlag(status, flag) => ToggleLookup(store, flag)

\* C21: in every state each stored record's visible flag is the one the
\* current toggle store of its mode gives its status: the record is visible
\* exactly when no flag contained in its status is toggled off
VisibleFollowsToggles ==
  \A mode \in ViewModes :
    \A rec \in Range(RecordsOf(mode)) :
      rec.visible <=> ShownByToggles(toggles[mode], rec.status)

\* the records of both stores
StoredRecords == Range(followRecords) \cup Range(blockRecords)

\* C22: the label of a stored record depends on its status alone: two
\* stored records with the same status carry the same label, whichever mode
\* produced them, and no stored record is without a label
LabelByStatusAlone ==
  /\ \A rec \in StoredRecords : rec.status_label # ""
  /\ \A rec1 \in StoredRecords, rec2 \in StoredRecords :
       rec1.status = rec2.status => rec1.status_label = rec2.status_label

\* C23: when the profile fetch succeeds with a payload that lacks the handle
\* or the identifier, the probe returns UNKNOWN together with a validation
\* error, whatever the other fields of the payload say
MissingFieldsUnknown ==
  \A p \in EndedProbes :
    LET run == runs[p[1]]
        resp == profile[CandDid(run, p[2])]
    IN resp.kind = "ok" /\ resp.hasData /\ (~resp.hasHandle \/ ~resp.hasDid) =>
         /\ run.probes[p[2]].st = "returned"
         /\ run.probes[p[2]].status = UNKNOWN
         /\ checkProfileStatus(build, resp).error = "validation"

\* the call of fetchHiddenAccounts has begun and not ended
UnderWay(run) == run.pc \notin {"idle", "done", "failed"}

\* C24: while a run is under way with itemCount 0 and no records stored for
\* the current mode, as it is throughout its listing phase, Preview can be
\* pressed again and starts a further run (as long as the behaviour has
\* calls of fetchHiddenAccounts left)
SecondRunNotPrevented ==
  \A r \in RunIds :
    /\ UnderWay(runs[r]) /\ itemCount = 0 /\ Len(CurrentRecords) = 0
    /\ \E q \in RunIds : runs[q].pc = "idle"
    => ENABLED (\E q \in RunIds : StartRun(q))

\* two runs are in flight with probes out, on the one progress counter, the
\* one itemCount and the one followRecords
TwoRunsInFlight ==
  \E r1 \in RunIds, r2 \in RunIds :
    /\ r1 # r2
    /\ UnderWay(runs[r1]) /\ InFlight(runs[r1]) # {}
    /\ UnderWay(runs[r2]) /\ InFlight(runs[r2]) # {}

\* C25: blockRecords never holds a record of a block that getBlocks still
\* lists as active, whatever page requests failed on the way
NoActiveBlockStored ==
  \A rec \in Range(blockRecords) : rec.did \notin liveDids

\* C26: in every state no stored record is marked toDelete while it is not
\* visible
NoHiddenSelected ==
  \A mode \in ViewModes :
    \A k \in DOMAIN RecordsOf(mode) :
      RecordsOf(mode)[k].toDelete => RecordsOf(mode)[k].visible

\* the delete operations a call of removeItems has sent in its applyWrites
\* calls so far
OpsSent(rem) ==
  {rem.writes[j] : j \in {i \in DOMAIN rem.writes :
                            \E c \in DOMAIN rem.calls : rem.calls[c].first <= i /\ i <= rem.calls[c].last}}

\* C27: over all applyWrites calls issued no record is named by two delete
\* operations: the operations of one removeItems call are all different, and
\* two removeItems calls have sent no operation in common
DeletedAtMostOnce ==
  /\ \A m \in RemIds :
       Cardinality(Range(removals[m].writes)) = Len(removals[m].writes)
  /\ \A m1 \in RemIds, m2 \in RemIds :
       m1 # m2 => OpsSent(removals[m1]) \cap OpsSent(removals[m2]) = {}

\* the followed accounts of a run for which checkProfileStatus yields a
\* defined status
FlaggedFollows(run) ==
  {run.cands[k].subject : k \in {j \in DOMAIN run.cands :
     LET result == checkProfileStatus(build, profile[run.cands[j].subject])
     IN ~result.threw /\ Retained(result.status)}}

\* C28: every value a follow-mode run stores into followRecords holds a
\* record for each followed account whose probe yields a defined status,
\* also when runs overlap
FollowStoreComplete ==
  [][\A r \in RunIds :
       runs'[r].mode = FOLLOWS /\ runs'[r].stores = runs[r].stores + 1 =>
         /\ followRecords' = runs'[r].stored
         /\ FlaggedFollows(runs'[r]) \subseteq {rec.did : rec \in Range(followRecords')}]_vars

\* C29: against a server that returns a cursor with every page after which
\* records remain, fetchFollows returns every follow record of the
\* repository, in order, also when the server's pages are shorter than the
\* 100 records asked for
FollowsListedComplete ==
  \A r \in RunIds :
    runs[r].mode = FOLLOWS /\ runs[r].pc \in {"f_timer", "f_probe", "done"} =>
      runs[r].items = repoFollows

\* C30: whenever no run is in flight (none has a request or a probe out),
\* itemCount is 0, so that Preview is offered as soon as the current mode has
\* no records, also after runs that ended by a failure
IdleMeansPreviewable ==
  (\A r \in RunIds : ~UnderWay(runs[r])) => itemCount = 0

====
